---- MODULE Spec2Model ----
(***************************************************************************)
(* The Helius webhook client (src/index.ts): six async operations over an  *)
(* HTTP transport (axios), run by any number of concurrent invocations     *)
(* against one remote webhook store.                                       *)
(*                                                                         *)
(* An invocation runs atomically between two awaits (JavaScript is single  *)
(* threaded), so every operation is one action for the call up to its      *)
(* first await and one action per resumption.  A resumption takes the      *)
(* transport's answer: the backend's own response, or a failure.           *)
(*                                                                         *)
(* Strings are sequences of text pieces (a template literal concatenates   *)
(* its pieces).  An address list is kept run-length encoded: a sequence of *)
(* runs [a |-> address, n |-> count], the list it stands for being every   *)
(* run's address repeated n times, in order.  This keeps the real cap of   *)
(* 10,000 within reach of the model checker.                               *)
(***************************************************************************)
EXTENDS Integers, Sequences, FiniteSets, TLC

VARIABLES store, version, inv

vars == <<store, version, inv>>

\* ------------------------------------------------------------------ bounds

\* Number of invocations the caller issues (they may all overlap).
MaxInvocations == 2

Invocations == 1..MaxInvocations

\* ------------------------------------------------------------- address lists

Run(a, n) == [a |-> a, n |-> n]

RECURSIVE AddrLen(_)
\* Array.prototype.length of the list a run sequence stands for.
AddrLen(l) == IF l = <<>> THEN 0 ELSE Head(l).n + AddrLen(Tail(l))

RECURSIVE AddrAt(_, _)
\* The k-th address (1-based) of the list a run sequence stands for.
AddrAt(l, k) == IF k <= Head(l).n THEN Head(l).a ELSE AddrAt(Tail(l), k - Head(l).n)

\* Array.prototype.concat: a new list, the receiver's entries then the argument's.
ConcatReversed(existing, new) == new \o existing

Concat(existing, new) == existing \o new

\* ------------------------------------------------------------------ webhooks

WebhookIDs == {"w1"}

IdOrder == <<"w1">>

\* The address lists a webhook starts with.
InitialAddresses ==
  { <<Run("a", 1), Run("b", 1)>>, <<Run("a", 9950)>>, <<Run("a", 9960)>> }

InitialWebhooks ==
  { [webhookID |-> "w1", webhookURL |-> "u1", accountAddresses |-> l] : l \in InitialAddresses }

\* The arguments the caller passes.
EditWebhookRequests == { [webhookURL |-> "u2"], [authHeader |-> "h2"] }

CreateWebhookRequests == { [webhookURL |-> "u3", accountAddresses |-> <<Run("c", 1)>>] }

NewAccountAddresses == { <<Run("b", 50)>>, <<Run("b", 1), Run("a", 1)>> }

\* Object spread { ...webhook, ...request }: the request's own fields win.
SpreadFetchedWins(webhook, request) ==
  [f \in DOMAIN webhook \cup DOMAIN request |->
     IF f \in DOMAIN webhook THEN webhook[f] ELSE request[f]]

Spread(webhook, request) ==
  [f \in DOMAIN webhook \cup DOMAIN request |->
     IF f \in DOMAIN request THEN request[f] ELSE webhook[f]]

\* -------------------------------------------------------------------- errors

NoResponse == [present |-> FALSE, kind |-> "none", error |-> <<>>]

\* new Error(message)
NewError(message) ==
  [isAxiosError |-> FALSE, name |-> "Error", message |-> message, response |-> NoResponse]

\* Reading .error of a null response body.
NullDataTypeError ==
  [isAxiosError |-> FALSE, name |-> "TypeError",
   message |-> <<"Cannot read properties of null (reading 'error')">>,
   response |-> NoResponse]

\* An AxiosError carrying the backend's response { error: text }.
ServerError(text) ==
  [isAxiosError |-> TRUE, name |-> "AxiosError",
   message |-> <<"Request failed with status code 400">>,
   response |-> [present |-> TRUE, kind |-> "payload", error |-> <<text>>]]

\* What the transport can reject a request with, besides the backend's own
\* answer: a server error payload; an AxiosError with no response at all
\* (network unreachable, timeout); an AxiosError whose response body is the
\* JSON value null; and a failure that is not an AxiosError.
TransportFailures ==
  { ServerError("X"),
    [isAxiosError |-> TRUE, name |-> "AxiosError", message |-> <<"Network Error">>,
     response |-> NoResponse],
    [isAxiosError |-> TRUE, name |-> "AxiosError",
     message |-> <<"Request failed with status code 502">>,
     response |-> [present |-> TRUE, kind |-> "null", error |-> <<>>]],
    NewError(<<"socket hang up">>) }

\* `${err}`: Error.prototype.toString.
ErrToString(err) == <<err.name, ": ">> \o err.message

\* `${err.response?.data.error}`
ResponseErrorText(err) ==
  IF err.response.present THEN err.response.error ELSE <<"undefined">>

\* The catch block every operation shares: what leaves it.
CatchDropsCause(prefix, err) == NewError(prefix)

CatchRethrows(prefix, err) == err

Catch(prefix, err) ==
  IF err.isAxiosError
    THEN IF err.response.present /\ err.response.kind = "null"
           THEN NullDataTypeError
           ELSE NewError(prefix \o ResponseErrorText(err))
    ELSE NewError(prefix \o ErrToString(err))

GetWebhooksPrefix == <<"error calling ", "getWebhooks", ": ">>
GetWebhookByIDPrefix == <<"error during ", "getWebhookByID", ": ">>
CreateWebhookPrefix == <<"error during ", "createWebhook", ": ">>
DeleteWebhookPrefix == <<"error during ", "deleteWebhook", ": ">>
EditWebhookPrefix == <<"error during ", "editWebhook", ": ">>
AppendAddressesPrefix == <<"error during ", "appendAddressesToWebhook", ": ">>

CapacityMessage == <<"a single webhook cannot contain more than 10,000 addresses">>

AddressCap == 10000

\* --------------------------------------------------------------- invocations

NoValue == [undefined |-> TRUE]

Idle ==
  [op |-> "none", pc |-> "idle", webhookID |-> "", request |-> NoValue,
   fetched |-> NoValue, webhook |-> NoValue, body |-> NoValue, sent |-> <<>>,
   cause |-> NoValue, status |-> "pending", value |-> NoValue, error |-> NoValue,
   verGet |-> -1, verPut |-> -1]

\* The caller's i-th invocation is its i-th call.
CanCall(i) ==
  /\ inv[i].pc = "idle"
  /\ \A j \in Invocations : j < i => inv[j].pc # "idle"

\* return data
Return(r, data) == [r EXCEPT !.pc = "done", !.status = "ok", !.value = data]

\* throw err, the await having been rejected with cause
Throw(r, err, cause) == [r EXCEPT !.pc = "done", !.status = "error", !.error = err, !.cause = cause]

\* -------------------------------------------------------------------- backend

\* GET /webhooks: every stored webhook.
ListResponse ==
  LET ids == SelectSeq(IdOrder, LAMBDA k : k \in DOMAIN store)
  IN  [n \in 1..Len(ids) |-> store[ids[n]]]

\* What a request naming webhook id can be rejected with.
FailuresFor(id) ==
  TransportFailures \cup
    (IF id \in DOMAIN store THEN {} ELSE {ServerError("webhook not found")})

\* What a POST can be rejected with.
PostFailures ==
  TransportFailures \cup
    (IF DOMAIN store = WebhookIDs THEN {ServerError("webhook limit reached")} ELSE {})

Init ==
  /\ store \in { [k \in WebhookIDs |-> w] : w \in InitialWebhooks }
  /\ version = 0
  /\ inv = [i \in Invocations |-> Idle]

\* ------------------------------------------------------------ getAllWebhooks

getAllWebhooks(i) ==
  /\ CanCall(i)
  /\ inv' = [inv EXCEPT ![i] = [@ EXCEPT !.op = "getAllWebhooks", !.pc = "awaitList",
                                         !.sent = <<"GET">>]]
  /\ UNCHANGED <<store, version>>

getAllWebhooksResolved(i) ==
  /\ inv[i].op = "getAllWebhooks" /\ inv[i].pc = "awaitList"
  /\ \/ inv' = [inv EXCEPT ![i] = Return(@, ListResponse)]
     \/ \E err \in TransportFailures :
          inv' = [inv EXCEPT ![i] = Throw(@, Catch(GetWebhooksPrefix, err), err)]
  /\ UNCHANGED <<store, version>>

\* ------------------------------------------------------------ getWebhookByID

getWebhookByID(i, webhookID) ==
  /\ CanCall(i)
  /\ inv' = [inv EXCEPT ![i] = [@ EXCEPT !.op = "getWebhookByID", !.pc = "awaitGet",
                                         !.webhookID = webhookID, !.sent = <<"GET">>]]
  /\ UNCHANGED <<store, version>>

getWebhookByIDResolved(i) ==
  /\ inv[i].op = "getWebhookByID" /\ inv[i].pc = "awaitGet"
  /\ \/ /\ inv[i].webhookID \in DOMAIN store
        /\ inv' = [inv EXCEPT ![i] = Return(@, store[inv[i].webhookID])]
     \/ \E err \in FailuresFor(inv[i].webhookID) :
          inv' = [inv EXCEPT ![i] = Throw(@, Catch(GetWebhookByIDPrefix, err), err)]
  /\ UNCHANGED <<store, version>>

\* ------------------------------------------------------------- createWebhook

createWebhook(i, createWebhookRequest) ==
  /\ CanCall(i)
  /\ inv' = [inv EXCEPT ![i] = [@ EXCEPT !.op = "createWebhook", !.pc = "awaitPost",
                                         !.request = createWebhookRequest,
                                         !.body = Spread(createWebhookRequest, [f \in {} |-> 0]),
                                         !.sent = <<"POST">>]]
  /\ UNCHANGED <<store, version>>

createWebhookResolved(i) ==
  /\ inv[i].op = "createWebhook" /\ inv[i].pc = "awaitPost"
  /\ \/ \E id \in WebhookIDs \ DOMAIN store :
          LET created == Spread(inv[i].body, [webhookID |-> id])
          IN  /\ store' = [k \in DOMAIN store \cup {id} |->
                             IF k = id THEN created ELSE store[k]]
              /\ version' = version + 1
              /\ inv' = [inv EXCEPT ![i] = Return(@, created)]
     \/ /\ \E err \in PostFailures :
             inv' = [inv EXCEPT ![i] = Throw(@, Catch(CreateWebhookPrefix, err), err)]
        /\ UNCHANGED <<store, version>>

\* ------------------------------------------------------------- deleteWebhook

deleteWebhook(i, webhookID) ==
  /\ CanCall(i)
  /\ inv' = [inv EXCEPT ![i] = [@ EXCEPT !.op = "deleteWebhook", !.pc = "awaitDelete",
                                         !.webhookID = webhookID, !.sent = <<"DELETE">>]]
  /\ UNCHANGED <<store, version>>

deleteWebhookResolved(i) ==
  /\ inv[i].op = "deleteWebhook" /\ inv[i].pc = "awaitDelete"
  /\ \/ /\ inv[i].webhookID \in DOMAIN store
        /\ store' = [k \in DOMAIN store \ {inv[i].webhookID} |-> store[k]]
        /\ version' = version + 1
        /\ inv' = [inv EXCEPT ![i] = Return(@, TRUE)]
     \/ /\ \E err \in FailuresFor(inv[i].webhookID) :
             inv' = [inv EXCEPT ![i] = Throw(@, Catch(DeleteWebhookPrefix, err), err)]
        /\ UNCHANGED <<store, version>>

\* --------------------------------------------------------------- editWebhook

editWebhook(i, webhookID, editWebhookRequest) ==
  /\ CanCall(i)
  /\ inv' = [inv EXCEPT ![i] = [@ EXCEPT !.op = "editWebhook", !.pc = "awaitGet",
                                         !.webhookID = webhookID,
                                         !.request = editWebhookRequest,
                                         !.sent = <<"GET">>]]
  /\ UNCHANGED <<store, version>>

\* await this.getWebhookByID(webhookID) settles: the PUT is issued, or the
\* error getWebhookByID threw is caught and rethrown.
editWebhookFetched(i) ==
  /\ inv[i].op = "editWebhook" /\ inv[i].pc = "awaitGet"
  /\ \/ /\ inv[i].webhookID \in DOMAIN store
        /\ LET webhook == store[inv[i].webhookID]
           IN  inv' = [inv EXCEPT ![i] =
                        [@ EXCEPT !.pc = "awaitPut", !.fetched = webhook, !.webhook = webhook,
                                  !.body = Spread(webhook, inv[i].request),
                                  !.sent = Append(@, "PUT"), !.verGet = version]]
     \/ \E err \in FailuresFor(inv[i].webhookID) :
          inv' = [inv EXCEPT ![i] =
                   Throw(@, Catch(EditWebhookPrefix, Catch(GetWebhookByIDPrefix, err)), err)]
  /\ UNCHANGED <<store, version>>

editWebhookWritten(i) ==
  /\ inv[i].op = "editWebhook" /\ inv[i].pc = "awaitPut"
  /\ \/ /\ inv[i].webhookID \in DOMAIN store
        /\ store' = [store EXCEPT ![inv[i].webhookID] = inv[i].body]
        /\ version' = version + 1
        /\ inv' = [inv EXCEPT ![i] = [Return(@, inv[i].body) EXCEPT !.verPut = version + 1]]
     \/ /\ \E err \in FailuresFor(inv[i].webhookID) :
             inv' = [inv EXCEPT ![i] = Throw(@, Catch(EditWebhookPrefix, err), err)]
        /\ UNCHANGED <<store, version>>

\* -------------------------------------------------- appendAddressesToWebhook

appendAddressesToWebhook(i, webhookID, newAccountAddresses) ==
  /\ CanCall(i)
  /\ inv' = [inv EXCEPT ![i] = [@ EXCEPT !.op = "appendAddressesToWebhook", !.pc = "awaitGet",
                                         !.webhookID = webhookID,
                                         !.request = newAccountAddresses,
                                         !.sent = <<"GET">>]]
  /\ UNCHANGED <<store, version>>

\* accountAddresses.length > 10000
OverCapTypo(accountAddresses) == AddrLen(accountAddresses) > 10 * AddressCap

OverCap(accountAddresses) == AddrLen(accountAddresses) > AddressCap

appendAddressesFetched(i) ==
  /\ inv[i].op = "appendAddressesToWebhook" /\ inv[i].pc = "awaitGet"
  /\ \/ /\ inv[i].webhookID \in DOMAIN store
        /\ LET fetched == store[inv[i].webhookID]
               accountAddresses == Concat(fetched.accountAddresses, inv[i].request)
               webhook == [fetched EXCEPT !.accountAddresses = accountAddresses]
           IN  IF OverCap(accountAddresses)
                 THEN inv' = [inv EXCEPT ![i] =
                               [Throw(@, Catch(AppendAddressesPrefix, NewError(CapacityMessage)),
                                      NoValue)
                                  EXCEPT !.fetched = fetched, !.webhook = webhook,
                                         !.verGet = version]]
                 ELSE inv' = [inv EXCEPT ![i] =
                               [@ EXCEPT !.pc = "awaitPut", !.fetched = fetched,
                                         !.webhook = webhook,
                                         !.body = Spread(webhook, [f \in {} |-> 0]),
                                         !.sent = Append(@, "PUT"), !.verGet = version]]
     \/ \E err \in FailuresFor(inv[i].webhookID) :
          inv' = [inv EXCEPT ![i] =
                   Throw(@, Catch(AppendAddressesPrefix, Catch(GetWebhookByIDPrefix, err)), err)]
  /\ UNCHANGED <<store, version>>

appendAddressesWritten(i) ==
  /\ inv[i].op = "appendAddressesToWebhook" /\ inv[i].pc = "awaitPut"
  /\ \/ /\ inv[i].webhookID \in DOMAIN store
        /\ store' = [store EXCEPT ![inv[i].webhookID] = inv[i].body]
        /\ version' = version + 1
        /\ inv' = [inv EXCEPT ![i] = [Return(@, inv[i].body) EXCEPT !.verPut = version + 1]]
     \/ /\ \E err \in FailuresFor(inv[i].webhookID) :
             inv' = [inv EXCEPT ![i] = Throw(@, Catch(AppendAddressesPrefix, err), err)]
        /\ UNCHANGED <<store, version>>

\* ------------------------------------------------------------- specification

Next ==
  \E i \in Invocations :
    \/ getAllWebhooks(i)
    \/ getAllWebhooksResolved(i)
    \/ \E id \in WebhookIDs : getWebhookByID(i, id)
    \/ getWebhookByIDResolved(i)
    \/ \E req \in CreateWebhookRequests : createWebhook(i, req)
    \/ createWebhookResolved(i)
    \/ \E id \in WebhookIDs : deleteWebhook(i, id)
    \/ deleteWebhookResolved(i)
    \/ \E id \in WebhookIDs, req \in EditWebhookRequests : editWebhook(i, id, req)
    \/ editWebhookFetched(i)
    \/ editWebhookWritten(i)
    \/ \E id \in WebhookIDs, new \in NewAccountAddresses : appendAddressesToWebhook(i, id, new)
    \/ appendAddressesFetched(i)
    \/ appendAddressesWritten(i)

Spec == Init /\ [][Next]_vars

\* Only appendAddressesToWebhook is called: the webhook has no other writer.
NextAppend ==
  \E i \in Invocations :
    \/ \E id \in WebhookIDs, new \in NewAccountAddresses : appendAddressesToWebhook(i, id, new)
    \/ appendAddressesFetched(i)
    \/ appendAddressesWritten(i)

SpecAppend == Init /\ [][NextAppend]_vars

\* -------------------------------------------------------------------- claims

\* The piece occurs in the message.
Contains(message, piece) == \E k \in 1..Len(message) : message[k] = piece

\* The text occurs in the message, contiguously.
ContainsText(message, text) ==
  \E k \in 0..(Len(message) - Len(text)) : SubSeq(message, k + 1, k + Len(text)) = text

\* The name an operation's errors carry.
OperationName(op) == IF op = "getAllWebhooks" THEN "getWebhooks" ELSE op

RECURSIVE Cum(_, _)
\* Entries in the first j runs of l.
Cum(l, j) == IF j = 0 THEN 0 ELSE l[j].n + Cum(l, j - 1)

\* Every position at which a run of l starts or ends, l being shifted by off.
RunEdges(l, off) ==
  UNION { {off + Cum(l, j), off + Cum(l, j) + 1} : j \in 0..Len(l) }

Appends == { i \in Invocations : inv[i].op = "appendAddressesToWebhook" }

Edits == { i \in Invocations : inv[i].op = "editWebhook" }

\* The invocation's fetch has resolved with a webhook.
Fetched(i) == inv[i].verGet >= 0

\* The total an append validates: len(existing) + len(new).
AppendTotal(i) == AddrLen(inv[i].fetched.accountAddresses) + AddrLen(inv[i].request)

AppendOverCap(i) == i \in Appends /\ Fetched(i) /\ AppendTotal(i) > AddressCap

AppendWithinCap(i) == i \in Appends /\ Fetched(i) /\ AppendTotal(i) <= AddressCap

C1_State ==
  \A i \in Appends :
    /\ AppendOverCap(i) =>
         /\ ~Contains(inv[i].sent, "PUT")
         /\ inv[i].pc = "done" /\ inv[i].status = "error"
         /\ ContainsText(inv[i].error.message, CapacityMessage)
    /\ Contains(inv[i].sent, "PUT") => AddrLen(inv[i].body.accountAddresses) <= AddressCap

C1_Step ==
  \A i \in Invocations :
    (inv[i].pc = "awaitGet" /\ inv'[i].pc = "done" /\ AppendOverCap(i)') =>
      (store' = store /\ version' = version)

\* C1: an appendAddressesToWebhook whose fetched list plus the new addresses
\* exceeds 10,000 entries issues no PUT, leaves the remote webhook as it was and
\* fails with the capacity message; every PUT body an append issues carries at
\* most 10,000 addresses.
C1_NoWriteOverCap == []C1_State /\ [][C1_Step]_vars

C1_Witness ==
  \E i \in Appends :
    /\ AppendOverCap(i) /\ inv[i].pc = "done"
    /\ inv[i].fetched.accountAddresses = <<Run("a", 9960)>>
    /\ inv[i].request = <<Run("b", 50)>>

\* C2: an appendAddressesToWebhook within the cap (10,000 exactly included)
\* issues exactly one PUT, whose body is the fetched webhook with the address
\* list existing ++ new: existing entries first, in order, then the new ones, in
\* order, none removed, and every other field as fetched.
C2_AppendBody ==
  \A i \in Appends :
    AppendWithinCap(i) =>
      LET existing == inv[i].fetched.accountAddresses
          new == inv[i].request
          merged == inv[i].body.accountAddresses
          total == AddrLen(existing) + AddrLen(new)
          edges == RunEdges(existing, 0) \cup RunEdges(new, AddrLen(existing))
                     \cup RunEdges(merged, 0)
      IN  /\ inv[i].sent = <<"GET", "PUT">>
          /\ DOMAIN inv[i].body = DOMAIN inv[i].fetched
          /\ \A f \in DOMAIN inv[i].fetched \ {"accountAddresses"} :
               inv[i].body[f] = inv[i].fetched[f]
          /\ AddrLen(merged) = total
          /\ \A k \in edges \cap (1..total) :
               AddrAt(merged, k) =
                 IF k <= AddrLen(existing) THEN AddrAt(existing, k)
                                           ELSE AddrAt(new, k - AddrLen(existing))

C2_Witness ==
  \E i \in Appends :
    /\ AppendWithinCap(i) /\ AppendTotal(i) = AddressCap
    /\ inv[i].fetched.accountAddresses = <<Run("a", 9950)>>
    /\ inv[i].request = <<Run("b", 50)>>
    /\ inv[i].pc = "done" /\ inv[i].status = "ok"
    /\ AddrLen(store[inv[i].webhookID].accountAddresses) = AddressCap

\* C3: the body editWebhook sends is the whole shallow merge of the fetched
\* webhook and the request: every field of the request with the request's
\* value, every other field of the fetched webhook with the fetched value,
\* and no field dropped.
C3_EditBody ==
  \A i \in Edits :
    Fetched(i) =>
      /\ DOMAIN inv[i].body = DOMAIN inv[i].fetched \cup DOMAIN inv[i].request
      /\ \A f \in DOMAIN inv[i].request : inv[i].body[f] = inv[i].request[f]
      /\ \A f \in DOMAIN inv[i].fetched \ DOMAIN inv[i].request :
           inv[i].body[f] = inv[i].fetched[f]

C3_Witness ==
  /\ \E i \in Edits :
       /\ Fetched(i) /\ Contains(inv[i].sent, "PUT")
       /\ inv[i].request = [webhookURL |-> "u2"]
       /\ inv[i].fetched.webhookURL = "u1"
  /\ \E i \in Edits :
       /\ Fetched(i) /\ Contains(inv[i].sent, "PUT")
       /\ inv[i].request = [authHeader |-> "h2"]
       /\ "authHeader" \notin DOMAIN inv[i].fetched

\* The invocation failed on a transport failure that carries no server error
\* payload.
FailedUnstructured(i) ==
  /\ inv[i].pc = "done" /\ inv[i].status = "error"
  /\ inv[i].cause # NoValue
  /\ inv[i].cause.response.kind # "payload"

\* C4: a transport failure with no server error payload yields an error whose
\* message contains the operation name and the failure's own text.
C4_TransportFailureText ==
  \A i \in Invocations :
    FailedUnstructured(i) =>
      /\ Contains(inv[i].error.message, OperationName(inv[i].op))
      /\ ContainsText(inv[i].error.message, inv[i].cause.message)

\* The invocation failed on a backend response { error: X }.
FailedOnPayload(i) ==
  /\ inv[i].pc = "done" /\ inv[i].status = "error"
  /\ inv[i].cause # NoValue
  /\ inv[i].cause.response.kind = "payload"

\* C5: a backend response { error: X }, at any step of any operation, yields an
\* error whose message contains the operation's name and X.
C5_ServerErrorText ==
  \A i \in Invocations :
    FailedOnPayload(i) =>
      /\ Contains(inv[i].error.message, OperationName(inv[i].op))
      /\ ContainsText(inv[i].error.message, inv[i].cause.response.error)

C5_Witness ==
  /\ \E i \in Edits : FailedOnPayload(i) /\ inv[i].sent = <<"GET">>
  /\ \E i \in Invocations : inv[i].op = "getAllWebhooks" /\ FailedOnPayload(i)

\* C6, as claimed: an appendAddressesToWebhook failing the capacity check
\* carries the capacity message and has attempted no network call.
C6_NoNetworkCall ==
  \A i \in Appends :
    (AppendOverCap(i) /\ inv[i].pc = "done") =>
      /\ ContainsText(inv[i].error.message, CapacityMessage)
      /\ inv[i].sent = <<>>

\* C6, amended: an appendAddressesToWebhook failing the capacity check throws
\* "error during appendAddressesToWebhook: Error: " followed by the capacity
\* message, and its only network call is the fetch (GET) the check follows: no
\* write is attempted.
C6_OnlyTheFetch ==
  \A i \in Appends :
    (AppendOverCap(i) /\ inv[i].pc = "done") =>
      /\ inv[i].status = "error"
      /\ inv[i].error.message
           = AppendAddressesPrefix \o <<"Error", ": ">> \o CapacityMessage
      /\ inv[i].sent = <<"GET">>

C6_Witness ==
  \E i \in Appends :
    /\ AppendOverCap(i) /\ inv[i].pc = "done"
    /\ inv[i].sent = <<"GET">>
    /\ AppendTotal(i) = AddressCap + 10

Deletes == { i \in Invocations : inv[i].op = "deleteWebhook" }

TwoStep == Edits \cup Appends

\* C8: in editWebhook and appendAddressesToWebhook the PUT is issued only
\* after the invocation's own GET has resolved with a webhook; when the fetch
\* fails no PUT is issued and the invocation fails with an error naming its
\* own operation.
C8_State ==
  \A i \in TwoStep :
    /\ Contains(inv[i].sent, "PUT") => (inv[i].sent = <<"GET", "PUT">> /\ Fetched(i))
    /\ (inv[i].pc = "done" /\ ~Fetched(i)) =>
         /\ inv[i].sent = <<"GET">>
         /\ inv[i].status = "error"
         /\ Contains(inv[i].error.message, inv[i].op)

C8_Step ==
  \A i \in Invocations :
    (Contains(inv'[i].sent, "PUT") /\ ~Contains(inv[i].sent, "PUT")) =>
      /\ inv[i].pc = "awaitGet" /\ inv[i].sent = <<"GET">>
      /\ inv[i].webhookID \in DOMAIN store
      /\ inv'[i].fetched = store[inv[i].webhookID]

C8_FetchBeforeWrite == []C8_State /\ [][C8_Step]_vars

C8_Witness ==
  /\ \E i \in Edits : inv[i].pc = "done" /\ ~Fetched(i)
  /\ \E i \in Appends : inv[i].sent = <<"GET", "PUT">>

\* Two edits of one webhook, of different fields, both fetched before either
\* wrote, both succeeded, i's write applied before j's.
Raced(i, j) ==
  /\ i \in Edits /\ j \in Edits /\ i # j
  /\ inv[i].webhookID = inv[j].webhookID
  /\ DOMAIN inv[i].request \cap DOMAIN inv[j].request = {}
  /\ inv[i].pc = "done" /\ inv[i].status = "ok"
  /\ inv[j].pc = "done" /\ inv[j].status = "ok"
  /\ inv[i].verGet = inv[j].verGet
  /\ inv[i].verPut < inv[j].verPut

\* C9: nothing serializes invocations, so updates are lost: when two
\* concurrent editWebhook calls on one webhook touch different fields and both
\* fetch before either writes, both succeed and the later write carries its
\* own change and, for the other call's field, the stale fetched value; while
\* it is the last write, that is the remote webhook.
C9_LostUpdate ==
  \A i, j \in Invocations :
    Raced(i, j) =>
      /\ inv[j].fetched = inv[i].fetched
      /\ \A f \in DOMAIN inv[j].request : inv[j].body[f] = inv[j].request[f]
      /\ \A f \in DOMAIN inv[i].request :
           /\ f \in DOMAIN inv[j].body <=> f \in DOMAIN inv[j].fetched
           /\ f \in DOMAIN inv[j].body => inv[j].body[f] = inv[j].fetched[f]
      /\ version = inv[j].verPut => store[inv[j].webhookID] = inv[j].body

C9_Witness ==
  \E i, j \in Invocations :
    /\ Raced(i, j)
    /\ inv[i].request = [webhookURL |-> "u2"]
    /\ inv[j].request = [authHeader |-> "h2"]
    /\ inv[i].value.webhookURL = "u2"
    /\ store[inv[j].webhookID].webhookURL = "u1"
    /\ store[inv[j].webhookID].authHeader = "h2"

\* C10: with appendAddressesToWebhook the only writer, and a store that
\* starts within the cap, the stored address list never exceeds 10,000
\* entries, whatever the interleaving.
C10_StoredWithinCap ==
  \A id \in DOMAIN store : AddrLen(store[id].accountAddresses) <= AddressCap

C10_Witness ==
  \E i, j \in Appends :
    /\ i # j
    /\ inv[i].pc = "done" /\ inv[i].status = "ok"
    /\ inv[j].pc = "done" /\ inv[j].status = "ok"
    /\ inv[i].verGet = inv[j].verGet
    /\ AddrLen(inv[i].fetched.accountAddresses) = 9950
    /\ AddrLen(store[inv[i].webhookID].accountAddresses) = AddressCap

====
